---------------------------- MODULE Spec2Model ----------------------------
(***************************************************************************)
(* Synthetic healthcare data generator (src/ml/src/data/generate_synthetic *)
(* .py, src/ml/src/data/schema.py): the entity generators, the no-show     *)
(* probability model and the multi-pass appointment journey simulator.     *)
(*                                                                         *)
(* Conventions                                                             *)
(*  - A calendar date is the number of days since 2001-01-01 (a Monday),   *)
(*    so weekday = day number % 7 with Monday = 0, as date.weekday().      *)
(*  - A datetime is a number of minutes since 2001-01-01 00:00.            *)
(*  - A probability is an exact fraction [num, den]; the additive deltas   *)
(*    of the model are given in hundredths.  A uniform draw of             *)
(*    random.random() is a number of hundredths.                           *)
(***************************************************************************)
EXTENDS Integers, Sequences, FiniteSets, TLC

VARIABLES
    pc,                 \* position of generate_all_data / generate_appointments
    today,              \* date.today() of the run
    cfg,                \* num_patients, num_providers, num_departments, num_appointments
    patients,           \* list[Patient]
    providers,          \* list[Provider]
    departments,        \* list[Department]
    insurance_records,  \* list[Insurance]
    appointments,       \* list[Appointment] being built
    loc,                \* locals of generate_appointments
    cur,                \* the locals of the last iteration of the appointment loop
    call,               \* arguments of a direct call of a pure function
    result              \* its return value

vars == <<pc, today, cfg, patients, providers, departments, insurance_records,
          appointments, loc, cur, call, result>>

\* The Python None, for a value that is otherwise a number (an id, a date, a
\* datetime or a count, all of them >= 0 in a run) and for one that is
\* otherwise a string
None == -1
NoneStr == "None"

Min(a, b) == IF a <= b THEN a ELSE b
Max(a, b) == IF a >= b THEN a ELSE b

---------------------------------------------------------------------------
(* Enumerations of schema.py *)

AgeBucket == {"0-17", "18-39", "40-64", "65+"}
PayerGrouping == {"Commercial", "Medicare", "Medicaid", "Self-Pay"}
VirtualFlag == {"Non-Virtual", "Virtual-Video", "Virtual-Telephone"}
NewPatientFlag == {"NEW PATIENT", "EST PATIENT"}
AppointmentStatus == {"Scheduled", "Checked In", "Checked Out", "Complete",
                      "Cancelled", "No Show", "Rescheduled"}

\* Patient.portal_engaged; portal_last_login is held as the number of whole
\* days between the login and now
portal_engaged(patient) ==
    IF patient.portal_last_login = None THEN FALSE
    ELSE patient.portal_last_login <= 90

---------------------------------------------------------------------------
(* Calendar: day number -> (month, day), exact for 2001..2099 *)

\* the number of days of the year before each month, and the length of the year
DaysBeforeMonth(leap) ==
    IF leap THEN <<0, 31, 60, 91, 121, 152, 182, 213, 244, 274, 305, 335, 366>>
    ELSE <<0, 31, 59, 90, 120, 151, 181, 212, 243, 273, 304, 334, 365>>

\* date.month and date.day of day number d
CivilDate(d) ==
    LET c      == d % 1461
        leap   == c >= 1095
        doy    == IF leap THEN c - 1095 ELSE c % 365
        before == DaysBeforeMonth(leap)
        m      == CHOOSE m \in 1 .. 12 : before[m] <= doy /\ doy < before[m + 1]
    IN  [month |-> m, day |-> doy - before[m] + 1]

Weekday(d) == d % 7

---------------------------------------------------------------------------
(* No-show probability model *)

BASE_NO_SHOW_RATE == -2

SEASONALITY_MODIFIERS ==
    << [name |-> "holiday_season",  start |-> <<12, 20>>, end |-> <<1, 5>>,  modifier |-> 15],
       [name |-> "summer_vacation", start |-> <<7, 1>>,   end |-> <<8, 15>>, modifier |-> 8],
       [name |-> "back_to_school",  start |-> <<8, 15>>,  end |-> <<8, 31>>, modifier |-> 5],
       [name |-> "tax_season",      start |-> <<4, 1>>,   end |-> <<4, 15>>, modifier |-> 3] >>

SeasonMatches(config, month, day) ==
    LET start_month == config.start[1]
        start_day   == config.start[2]
        end_month   == config.end[1]
        end_day     == config.end[2]
    IN  IF start_month > end_month
        THEN \/ (month >= start_month /\ day >= start_day)
             \/ (month <= end_month /\ day <= end_day)
        ELSE /\ start_month <= month /\ month <= end_month
             /\ (month > start_month \/ day >= start_day)
             /\ (month < end_month \/ day <= end_day)

\* the windows searched from the end of the table: the last match wins
SeasonalityLastMatch(i, month, day) ==
    LET matching == { j \in i .. Len(SEASONALITY_MODIFIERS) :
                        SeasonMatches(SEASONALITY_MODIFIERS[j], month, day) }
    IN  IF matching = {} THEN 0
        ELSE SEASONALITY_MODIFIERS[CHOOSE j \in matching : \A k \in matching : k <= j].modifier

RECURSIVE SeasonalityFrom(_, _, _)
SeasonalityFrom(i, month, day) ==
    IF i > Len(SEASONALITY_MODIFIERS) THEN 0
    ELSE IF SeasonMatches(SEASONALITY_MODIFIERS[i], month, day)
         THEN SEASONALITY_MODIFIERS[i].modifier
         ELSE SeasonalityFrom(i + 1, month, day)

\* _get_seasonality_modifier, in hundredths
GetSeasonalityModifier(appointment_date) ==
    SeasonalityFrom(1, appointment_date.month, appointment_date.day)

\* the lead-time delta with the discount of the two shortest bands given to
\* the two longest ones
LeadTimeDeltaLateDiscount(lead_time_days) ==
    IF lead_time_days <= 0 THEN 16
    ELSE IF lead_time_days <= 3 THEN 14
    ELSE IF lead_time_days <= 7 THEN 4
    ELSE IF lead_time_days <= 14 THEN 10
    ELSE IF lead_time_days <= 30 THEN -6
    ELSE -12

LeadTimeDelta(lead_time_days) ==
    IF lead_time_days <= 0 THEN -12
    ELSE IF lead_time_days <= 3 THEN -6
    ELSE IF lead_time_days <= 7 THEN 4
    ELSE IF lead_time_days <= 14 THEN 10
    ELSE IF lead_time_days <= 30 THEN 14
    ELSE 16

AgeDelta(bucket) ==
    CASE bucket = "0-17"  -> 3
      [] bucket = "18-39" -> 4
      [] bucket = "40-64" -> -2
      [] bucket = "65+"   -> -5
      [] OTHER            -> 0

PayerDelta(payer_group) ==
    CASE payer_group = "Medicaid" -> 6
      [] payer_group = "Self-Pay" -> 8
      [] payer_group = "Medicare" -> -3
      [] OTHER                    -> 0

DayOfWeekDelta(day_of_week) ==
    IF day_of_week = 0 THEN 3 ELSE IF day_of_week = 4 THEN 2 ELSE 0

HourDelta(hour_of_day) ==
    IF 14 <= hour_of_day /\ hour_of_day <= 16 THEN 2
    ELSE IF 7 <= hour_of_day /\ hour_of_day <= 9 THEN -3
    ELSE 0

VirtualDelta(virtual_flag) ==
    CASE virtual_flag = "Virtual-Video"     -> -5
      [] virtual_flag = "Virtual-Telephone" -> -3
      [] OTHER                              -> 0

\* The sum of the deltas that are whole hundredths.
FixedDeltas(patient, appointment_date, lead_time_days, hour_of_day, day_of_week, virtual_flag, new_patient_flag, payer_group, web_scheduled, journey_stage) ==
      BASE_NO_SHOW_RATE
    + LeadTimeDelta(lead_time_days)
    + AgeDelta(patient.patient_age_bucket)
    + PayerDelta(payer_group)
    + DayOfWeekDelta(day_of_week)
    + HourDelta(hour_of_day)
    + (IF new_patient_flag = "NEW PATIENT" THEN 4 ELSE 0)
    + VirtualDelta(virtual_flag)
    + (IF ~portal_engaged(patient) THEN 3 ELSE 0)
    + (IF web_scheduled THEN -2 ELSE 0)
    + GetSeasonalityModifier(appointment_date)
    + (IF journey_stage = "care_abandonment_escalating" THEN 20 ELSE 0)

\* The common denominator of a probability computed for a patient whose
\* historical_no_show_rate is num/den: one hundredth is 2*den units.
ProbDen(patient) == 200 * patient.historical_no_show_rate.den

\* min(0.20, historical_no_show_rate * 0.5), in units of 1/ProbDen(patient).
\* The elif of the source (perfect attendance bonus) needs the attribute
\* _has_history, which nothing sets: hasattr is always false.
HistoryImpact(patient) ==
    IF patient.historical_no_show_count > 0
    THEN Min(40 * patient.historical_no_show_rate.den,
             100 * patient.historical_no_show_rate.num)
    ELSE 0

\* max(0.03, min(0.85, probability)), probability in units of 1/den
\* a clamp that lost its ceiling
ClampNoCeiling(probability, den) ==
    Max(3 * (den \div 100), probability)

\* line 492: max(0.03, min(0.85, probability))
ClampProbability(probability, den) ==
    Max(3 * (den \div 100), Min(85 * (den \div 100), probability))

\* calculate_no_show_probability: the clamped probability as a fraction
calculate_no_show_probability(patient, appointment_date, lead_time_days, hour_of_day, day_of_week, virtual_flag, new_patient_flag, payer_group, web_scheduled, journey_stage) ==
    LET den == ProbDen(patient)
        probability ==
            (den \div 100) * FixedDeltas(patient, appointment_date, lead_time_days,
                                         hour_of_day, day_of_week, virtual_flag,
                                         new_patient_flag, payer_group, web_scheduled,
                                         journey_stage)
            + HistoryImpact(patient)
    IN  [num |-> ClampProbability(probability, den), den |-> den]

---------------------------------------------------------------------------
(* Bounds of the explored runs *)

MaxPatients == 2
MaxProviders == 2
MaxDepartments == 2
MaxAppointments == 3
\* the size of an explored configuration (Size) is at most MaxSize
MaxSize == 4
\* the pass counter stops counting here (only a run that creates no
\* appointment in a pass gets this far)
MaxPass == 6

\* Values drawn for a random.randint(lo, hi): the two ends of the range
Randint(lo, hi) == {lo, hi}

\* date.today() of the explored runs: 2026-11-02
TodayDraws == {9436}

\* SPECIALTIES: one primary-care and one other specialty of the 15
SPECIALTIES == <<"Family Medicine", "Cardiology">>
primary_care_specialties == <<"Family Medicine", "Internal Medicine", "Pediatrics">>

JOURNEY_TYPES == {"routine_care", "chronic_management", "episodic",
                  "referral_chain", "care_abandonment"}

\* Journey types drawn for a patient: the one with single-appointment passes,
\* the one that picks the specialty by position, the one that escalates
JourneyDraws == {"episodic", "referral_chain", "care_abandonment"}

\* Values drawn together for a patient: the age bucket and the days since
\* portal_last_login (None: no portal account)
PatientDraws ==
    { [age_bucket |-> "18-39", portal_last_login |-> None] }

\* Values drawn for the payer group of an insurance record
PayerDraws == {"Self-Pay"}

\* Values drawn together in one iteration of the appointment loop: the start
\* time (random.randint(7, 16), a quarter of an hour), the duration, the
\* modality, the gamma variate of the lead time before it is clipped, whether
\* it is web scheduled, random.random()
\* in hundredths, and the minutes of the check-in before the start
\* (random.randint(5, 30)) and of the check-out after the end
\* (random.randint(5, 45))
IterationDraw(gamma, virtual_flag, web_scheduled, roll, checkin, checkout) ==
    [ hour |-> 9, minute |-> 30, duration |-> 15, virtual_flag |-> virtual_flag,
      gamma |-> gamma, web_scheduled |-> web_scheduled, roll |-> roll,
      checkin |-> checkin, checkout |-> checkout ]

IterationDraws ==
    { IterationDraw(0, "Non-Virtual", FALSE, 0, 30, 45),
      IterationDraw(0, "Non-Virtual", FALSE, 3, 30, 45),
      IterationDraw(120, "Virtual-Video", TRUE, 99, 5, 5) }

Range(s) == {s[i] : i \in DOMAIN s}

---------------------------------------------------------------------------
(* schema.py: derived properties *)

\* a lead time clipped from below only
gamma_lead_time_unclipped(value) == Max(0, value)

\* gamma_lead_time: int(np.clip(value, 0, 90)), value the whole days of the
\* gamma draw
gamma_lead_time(value) == Max(0, Min(90, value))

\* datetime.combine(date, time(hour, minute)), in minutes
Combine(d, hour, minute) == d * 1440 + hour * 60 + minute

\* Appointment.appointmentdatetime
appointmentdatetime(appt) ==
    Combine(appt.appointmentdate, appt.appointmentstarttime.hour,
            appt.appointmentstarttime.minute)

\* Appointment.lead_time_days: timedelta.days of the time from the scheduling
\* to the appointment, at least 0
lead_time_days(appt) ==
    IF appt.appointmentscheduleddatetime = None THEN 0
    ELSE Max(0, (appointmentdatetime(appt) - appt.appointmentscheduleddatetime) \div 1440)

\* Appointment.is_past, now the current datetime
is_past(appt, now) == appointmentdatetime(appt) < now

\* a no_show that does not look at the check-in
no_show_without_checkin(appt, now) ==
    IF appt.appointmentstatus = "No Show" THEN TRUE
    ELSE is_past(appt, now) /\ appt.appointmentstatus = "Scheduled"

\* Appointment.no_show
no_show(appt, now) ==
    IF appt.appointmentstatus = "No Show" THEN TRUE
    ELSE IF /\ is_past(appt, now)
            /\ appt.appointmentstatus = "Scheduled"
            /\ appt.appointmentcheckindatetime = None
         THEN TRUE
         ELSE FALSE

---------------------------------------------------------------------------
(* generate_all_data: the explored configurations and the initial state *)

Counts(max) == {-1} \cup (0 .. max)

\* the size of a configuration: the product of its four counts
Size(c) ==
    Max(0, c.num_patients) * Max(0, c.num_providers) * Max(0, c.num_departments) * Max(0, c.num_appointments)

Configs ==
    { c \in [num_patients : Counts(MaxPatients), num_providers : Counts(MaxProviders), num_departments : Counts(MaxDepartments), num_appointments : Counts(MaxAppointments)] : Size(c) <= MaxSize }

NoLocals ==
    [ start_date |-> None, end_date |-> None, appointment_id |-> None,
      appointments_created |-> None, patient_journeys |-> <<>>, patient_stats |-> <<>>,
      pass_number |-> None, patients_this_pass |-> <<>>, patient |-> None,
      journey_type |-> NoneStr, payer |-> NoneStr, num_appointments |-> None,
      appt_num |-> None, patient_no_shows |-> None, patient_total |-> None,
      last_appt_date |-> None, appt_date |-> None, parent_appointment_id |-> None ]

\* no iteration of the appointment loop has run; no pure function is called
NoIteration == [appointment |-> [appointmentid |-> None]]
NoCall == [function |-> NoneStr]

Init ==
    /\ pc = "generate_patients"
    /\ today \in TodayDraws
    /\ cfg \in Configs
    /\ patients = <<>>
    /\ providers = <<>>
    /\ departments = <<>>
    /\ insurance_records = <<>>
    /\ appointments = <<>>
    /\ loc = NoLocals
    /\ cur = NoIteration
    /\ call = NoCall
    /\ result = NoCall

---------------------------------------------------------------------------
(* Entity generators *)

\* range(1, count + 1)
IdRange(count) == 1 .. Max(0, count)

\* a patient whose enterprise id forgot the patient id
PatientSharedEnterprise(patient_id, age_bucket, portal_last_login) ==
    [ patientid |-> patient_id,
      enterpriseid |-> 1000000,
      patient_age_bucket |-> age_bucket,
      portal_last_login |-> portal_last_login,
      historical_no_show_count |-> 0,
      historical_no_show_rate |-> [num |-> 0, den |-> 1] ]

\* lines 243-255: Patient(patientid=patient_id, enterpriseid=1000000 + patient_id, ...)
Patient(patient_id, age_bucket, portal_last_login) ==
    [ patientid |-> patient_id,
      enterpriseid |-> 1000000 + patient_id,
      patient_age_bucket |-> age_bucket,
      portal_last_login |-> portal_last_login,
      historical_no_show_count |-> 0,
      historical_no_show_rate |-> [num |-> 0, den |-> 1] ]

generate_patients(count, drawn) ==
    [ patient_id \in IdRange(count) |->
        Patient(patient_id, drawn[patient_id].age_bucket, drawn[patient_id].portal_last_login) ]

GeneratePatients ==
    /\ pc = "generate_patients"
    /\ \E drawn \in [IdRange(cfg.num_patients) -> PatientDraws] :
          patients' = generate_patients(cfg.num_patients, drawn)
    /\ pc' = "generate_providers"
    /\ UNCHANGED <<today, cfg, providers, departments, insurance_records,
                   appointments, loc, cur, call, result>>

generate_providers(count, specialty) ==
    [ provider_id \in IdRange(count) |->
        [ providerid |-> provider_id, provider_specialty |-> specialty[provider_id] ] ]

GenerateProviders ==
    /\ pc = "generate_providers"
    /\ \E specialty \in [IdRange(cfg.num_providers) -> Range(SPECIALTIES)] :
          providers' = generate_providers(cfg.num_providers, specialty)
    /\ pc' = "generate_departments"
    /\ UNCHANGED <<today, cfg, patients, departments, insurance_records,
                   appointments, loc, cur, call, result>>

generate_departments(count, specialty) ==
    [ dept_id \in IdRange(count) |->
        [ departmentid |-> dept_id, departmentspecialty |-> specialty[dept_id] ] ]

GenerateDepartments ==
    /\ pc = "generate_departments"
    /\ \E specialty \in [IdRange(cfg.num_departments) -> Range(SPECIALTIES)] :
          departments' = generate_departments(cfg.num_departments, specialty)
    /\ pc' = "generate_insurance"
    /\ UNCHANGED <<today, cfg, patients, providers, insurance_records,
                   appointments, loc, cur, call, result>>

\* insurance records numbered in a range of their own
generate_insurance_own_ids(pats, payer_group) ==
    [ i \in DOMAIN pats |->
        [ primarypatientinsuranceid |-> 5000000 + pats[i].patientid,
          patientid |-> pats[i].patientid,
          sipg2 |-> payer_group[i] ] ]

\* generate_insurance: one record per patient, in the order of the patients
generate_insurance(pats, payer_group) ==
    [ i \in DOMAIN pats |->
        [ primarypatientinsuranceid |-> pats[i].patientid,
          patientid |-> pats[i].patientid,
          sipg2 |-> payer_group[i] ] ]

GenerateInsurance ==
    /\ pc = "generate_insurance"
    /\ \E payer_group \in [DOMAIN patients -> PayerDraws] :
          insurance_records' = generate_insurance(patients, payer_group)
    /\ pc' = "generate_appointments"
    /\ UNCHANGED <<today, cfg, patients, providers, departments,
                   appointments, loc, cur, call, result>>

---------------------------------------------------------------------------
(* generate_appointments *)

FUTURE_DAYS == 42
WINDOW_DAYS == 730

\* insurance_by_patient.get(patientid), then .sipg2 or SELF_PAY
PayerOf(patientid) ==
    LET found == { i \in DOMAIN insurance_records : insurance_records[i].patientid = patientid }
    IN  IF found = {} THEN "Self-Pay"
        ELSE insurance_records[CHOOSE i \in found : \A j \in found : j <= i].sipg2

\* a fallback that invents a provider of the specialty
AvailableProvidersPlaceholder(specialty) ==
    LET matching == SelectSeq(providers, LAMBDA p : p.provider_specialty = specialty)
    IN  IF matching = <<>>
        THEN << [providerid |-> 0, provider_specialty |-> specialty] >>
        ELSE matching

\* providers_by_specialty.get(specialty), or the whole list when there is none
AvailableProviders(specialty) ==
    LET matching == SelectSeq(providers, LAMBDA p : p.provider_specialty = specialty)
    IN  IF matching = <<>> THEN providers ELSE matching

\* a department lookup without the fallback
AvailableDepartmentsNoFallback(specialty) ==
    SelectSeq(departments, LAMBDA d : d.departmentspecialty = specialty)

\* departments_by_specialty.get(specialty), or the whole list when there is none
AvailableDepartments(specialty) ==
    LET matching == SelectSeq(departments, LAMBDA d : d.departmentspecialty = specialty)
    IN  IF matching = <<>> THEN departments ELSE matching

\* the range of random.randint for the journey's appointments of a pass
QuotaRange(journey_type) ==
    CASE journey_type = "routine_care"       -> <<2, 6>>
      [] journey_type = "chronic_management" -> <<6, 24>>
      [] journey_type = "episodic"           -> <<1, 4>>
      [] journey_type = "referral_chain"     -> <<3, 8>>
      [] OTHER                               -> <<3, 6>>

\* a multiplier that shrinks with the passes: 1 - (pass_number - 1) * 0.5
NumAppointmentsShrinking(drawn, pass_number) == Max(0, (drawn * (3 - pass_number)) \div 2)

\* int(drawn * base_multiplier), base_multiplier = 1 + (pass_number - 1) * 0.5
NumAppointments(drawn, pass_number) == (drawn * (pass_number + 1)) \div 2

\* the range of the interval to the next appointment of a pass
IntervalRange(journey_type) ==
    CASE journey_type = "chronic_management" -> <<21, 90>>
      [] journey_type = "care_abandonment"   -> <<14, 45>>
      [] OTHER                               -> <<7, 180>>

\* the specialties random.choice draws from
SpecialtyChoices(journey_type, appt_num) ==
    IF journey_type = "referral_chain"
    THEN IF appt_num = 0
         THEN Range(primary_care_specialties)
         ELSE Range(SPECIALTIES) \ Range(primary_care_specialties)
    ELSE Range(SPECIALTIES)

\* a date after the window end wraps to start_date + randint(0, 365)
WrapDate(computed, l, wrap) ==
    IF computed > l.end_date THEN l.start_date + wrap ELSE computed

\* the dates the appointment of this iteration can get
ApptDateChoices(l) ==
    IF l.appt_num = 0 /\ l.last_appt_date = None
    THEN { l.start_date + days_from_start :
             days_from_start \in Randint(0, (l.end_date - l.start_date) - 30) }
    ELSE IF l.appt_num = 0
    THEN { WrapDate(l.last_appt_date + interval, l, wrap) :
             interval \in Randint(7, 90), wrap \in Randint(0, 365) }
    ELSE { WrapDate(l.appt_date + interval, l, wrap) :
             interval \in Randint(IntervalRange(l.journey_type)[1],
                                  IntervalRange(l.journey_type)[2]),
             wrap \in Randint(0, 365) }

NewPatientFlagOf(patient_total, appt_num) ==
    IF patient_total = 0 /\ appt_num = 0 THEN "NEW PATIENT" ELSE "EST PATIENT"

JourneyStage(journey_type, appt_num) ==
    IF journey_type = "care_abandonment" /\ appt_num >= 2
    THEN "care_abandonment_escalating" ELSE "normal"

\* roll < no_show_prob + extra hundredths
RollBelow(roll, no_show_prob, extra) ==
    roll * no_show_prob.den < 100 * no_show_prob.num + extra * no_show_prob.den

\* a roll equal to the probability counts as a no-show
DetermineStatusInclusive(is_future, roll, no_show_prob) ==
    IF is_future THEN "Scheduled"
    ELSE IF roll * no_show_prob.den <= 100 * no_show_prob.num THEN "No Show"
    ELSE IF RollBelow(roll, no_show_prob, 10) THEN "Cancelled"
    ELSE "Complete"

\* the status of the appointment: scheduled when in the future, else by the roll
DetermineStatus(is_future, roll, no_show_prob) ==
    IF is_future THEN "Scheduled"
    ELSE IF RollBelow(roll, no_show_prob, 0) THEN "No Show"
    ELSE IF RollBelow(roll, no_show_prob, 10) THEN "Cancelled"
    ELSE "Complete"

CheckinTime(status, appt_datetime, minutes) ==
    IF status = "Complete" THEN appt_datetime - minutes ELSE None

\* a check-out that forgot the duration
CheckoutTimeNoDuration(status, appt_datetime, duration, minutes) ==
    IF status = "Complete" THEN appt_datetime + minutes ELSE None

\* line 747: appt_datetime + timedelta(minutes=duration + randint(5, 45))
CheckoutTime(status, appt_datetime, duration, minutes) ==
    IF status = "Complete" THEN appt_datetime + duration + minutes ELSE None

\* a direct call of generate_appointments carries the window arguments
\* (None when omitted); generate_all_data passes none
HasWindow(c) == c.function = "generate_appointments"

\* lines 545-546: end_date, by default today + 6 weeks
EndDate(c) ==
    IF HasWindow(c) /\ c.end_date # None THEN c.end_date ELSE today + FUTURE_DAYS

\* lines 547-548: start_date, by default end_date - 730 days
StartDate(c) ==
    IF HasWindow(c) /\ c.start_date # None THEN c.start_date ELSE EndDate(c) - WINDOW_DAYS

\* lines 542-585: the window, the journeys, the running statistics
BeginAppointments ==
    /\ pc = "generate_appointments"
    /\ \E journeys \in [DOMAIN patients -> JourneyDraws] :
          loc' = [ NoLocals EXCEPT
                     !.end_date = EndDate(call),
                     !.start_date = StartDate(call),
                     !.appointment_id = 1,
                     !.appointments_created = 0,
                     !.patient_journeys = journeys,
                     !.patient_stats = [ i \in DOMAIN patients |->
                          [no_shows |-> 0, total |-> 0, last_appt_date |-> None] ],
                     !.pass_number = 0 ]
    /\ pc' = "pass_loop"
    /\ UNCHANGED <<today, cfg, patients, providers, departments, insurance_records,
                   appointments, cur, call, result>>

\* random.sample(patients, len(patients)): the orders of the n patients
Shuffles(n) == { f \in [1 .. n -> 1 .. n] : \A i, j \in 1 .. n : f[i] = f[j] => i = j }

\* line 586-588: the while test holds; a new pass over the shuffled patients
StartPass ==
    /\ pc = "pass_loop"
    /\ loc.appointments_created < cfg.num_appointments
    /\ \E order \in Shuffles(Len(patients)) :
          loc' = [ loc EXCEPT !.pass_number = Min(loc.pass_number + 1, MaxPass),
                              !.patients_this_pass = order ]
    /\ pc' = "patient_loop"
    /\ UNCHANGED <<today, cfg, patients, providers, departments, insurance_records,
                   appointments, cur, call, result>>

\* line 586: the while test fails
ExitPassLoop ==
    /\ pc = "pass_loop"
    /\ ~(loc.appointments_created < cfg.num_appointments)
    /\ pc' = "update_statistics"
    /\ UNCHANGED <<today, cfg, patients, providers, departments, insurance_records,
                   appointments, loc, cur, call, result>>

\* lines 590-616: the next patient of the pass, the quota, the carried history
BeginPatient ==
    /\ pc = "patient_loop"
    /\ loc.patients_this_pass # <<>>
    /\ loc.appointments_created < cfg.num_appointments
    /\ LET patient == Head(loc.patients_this_pass)
           journey_type == loc.patient_journeys[patients[patient].patientid]
           quota == QuotaRange(journey_type)
           stats == loc.patient_stats[patients[patient].patientid]
       IN  \E drawn \in Randint(quota[1], quota[2]) :
              loc' = [ loc EXCEPT
                         !.patients_this_pass = Tail(loc.patients_this_pass),
                         !.patient = patient,
                         !.journey_type = journey_type,
                         !.payer = PayerOf(patients[patient].patientid),
                         !.num_appointments = NumAppointments(drawn, loc.pass_number),
                         !.appt_num = 0,
                         !.patient_no_shows = stats.no_shows,
                         !.patient_total = stats.total,
                         !.last_appt_date = stats.last_appt_date,
                         !.parent_appointment_id = None ]
    /\ pc' = "appointment_loop"
    /\ UNCHANGED <<today, cfg, patients, providers, departments, insurance_records,
                   appointments, cur, call, result>>

\* lines 590-592 and 791-792: the pass is over (no patient left, or the target
\* is reached); the pass loop ends when the target is reached
EndPass ==
    /\ pc = "patient_loop"
    /\ \/ loc.patients_this_pass = <<>>
       \/ loc.appointments_created >= cfg.num_appointments
    /\ pc' = IF loc.appointments_created >= cfg.num_appointments
             THEN "update_statistics" ELSE "pass_loop"
    /\ UNCHANGED <<today, cfg, patients, providers, departments, insurance_records,
                   appointments, loc, cur, call, result>>

\* the Appointment of lines 758-779
Appointment(l, provider, department, appt_date, hour, minute, duration, status, scheduled_datetime, checkin_time, checkout_time, virtual_flag, new_patient_flag, web_scheduled) ==
    [ appointmentid |-> l.appointment_id,
      patientid |-> patients[l.patient].patientid,
      providerid |-> provider.providerid,
      departmentid |-> department.departmentid,
      appointmentdate |-> appt_date,
      appointmentstarttime |-> [hour |-> hour, minute |-> minute],
      appointmentduration |-> duration,
      appointmentstatus |-> status,
      appointmentscheduleddatetime |-> scheduled_datetime,
      parentappointmentid |-> l.parent_appointment_id,
      appointmentcheckindatetime |-> checkin_time,
      appointmentcheckoutdatetime |-> checkout_time,
      webschedulableyn |-> IF web_scheduled THEN 1 ELSE 0,
      virtual_flag |-> virtual_flag,
      new_patient_flag |-> new_patient_flag ]

\* what the list of appointments keeps of an appended Appointment: the fields
\* the rest of the run reads
Stored(appointment) ==
    [ appointmentid |-> appointment.appointmentid,
      patientid |-> appointment.patientid,
      providerid |-> appointment.providerid,
      departmentid |-> appointment.departmentid,
      appointmentdate |-> appointment.appointmentdate,
      appointmentstarttime |-> appointment.appointmentstarttime,
      appointmentstatus |-> appointment.appointmentstatus,
      parentappointmentid |-> appointment.parentappointmentid,
      appointmentcheckindatetime |-> appointment.appointmentcheckindatetime,
      new_patient_flag |-> appointment.new_patient_flag ]

\* lines 706-708: the patient as passed to calculate_no_show_probability
WithHistory(patient, patient_no_shows, patient_total) ==
    [ patient EXCEPT !.historical_no_show_count = patient_no_shows,
                     !.historical_no_show_rate =
                         [num |-> patient_no_shows, den |-> Max(1, patient_total)] ]

\* a total that counts the future appointments too
TotalAfterAll(patient_total, is_future) == patient_total + 1

\* lines 749-753
TotalAfter(patient_total, is_future) ==
    IF ~is_future THEN patient_total + 1 ELSE patient_total

\* a running count that takes a cancellation for a no-show
NoShowsAfterCancelled(patient_no_shows, is_future, status) ==
    IF ~is_future /\ status \in {"No Show", "Cancelled"}
    THEN patient_no_shows + 1 ELSE patient_no_shows

NoShowsAfter(patient_no_shows, is_future, status) ==
    IF ~is_future /\ status = "No Show" THEN patient_no_shows + 1 ELSE patient_no_shows

\* a quota loop that always runs to the end of the quota
TargetNeverReached(l) == FALSE

\* lines 619-620: the quota loop stops as soon as the target is reached
TargetReached(l) == l.appointments_created >= cfg.num_appointments

\* a parent that stays the first appointment of the run
ParentAfterFirstOfRun(l) == Min(1, l.appointment_id)

\* a parent id taken after the increment of the counter
ParentAfterIncrement(l) == l.appointment_id + 1

\* line 782: parent_appointment_id = appointment_id, before line 783 increments
ParentAfter(l) == l.appointment_id

\* lines 618-784: one iteration of the appointment loop
CreateAppointment ==
    /\ pc = "appointment_loop"
    /\ loc.appt_num < loc.num_appointments
    /\ ~TargetReached(loc)
    /\ \E specialty \in SpecialtyChoices(loc.journey_type, loc.appt_num) :
         LET available_providers == AvailableProviders(specialty)
             available_depts == AvailableDepartments(specialty)
         IN  IF available_providers = <<>> \/ available_depts = <<>>
             THEN \* random.choice of an empty list
                  /\ pc' = "IndexError"
                  /\ UNCHANGED <<patients, appointments, loc, cur>>
             ELSE \E provider \in Range(available_providers),
                     department \in Range(available_depts),
                     appt_date \in ApptDateChoices(loc),
                     slot \in IterationDraws :
                  LET hour == slot.hour
                      roll == slot.roll
                      minute == slot.minute
                      duration == slot.duration
                      virtual_flag == slot.virtual_flag
                      lead_time == gamma_lead_time(slot.gamma)
                      web_scheduled == slot.web_scheduled
                      new_patient_flag == NewPatientFlagOf(loc.patient_total, loc.appt_num)
                      scheduled_datetime == Combine(appt_date, 0, 0) - lead_time * 1440
                      journey_stage == JourneyStage(loc.journey_type, loc.appt_num)
                      patient == WithHistory(patients[loc.patient], loc.patient_no_shows,
                                             loc.patient_total)
                      is_future == appt_date > today
                      appt_datetime == Combine(appt_date, hour, minute)
                  IN  \E no_show_prob \in
                         { calculate_no_show_probability(patient, CivilDate(appt_date),
                               lead_time, hour, Weekday(appt_date), virtual_flag,
                               new_patient_flag, loc.payer, web_scheduled, journey_stage) } :
                      \E status \in { DetermineStatus(is_future, roll, no_show_prob) } :
                      \E appointment \in
                         { Appointment(loc, provider, department, appt_date, hour, minute,
                               duration, status, scheduled_datetime,
                               CheckinTime(status, appt_datetime, slot.checkin),
                               CheckoutTime(status, appt_datetime, duration, slot.checkout),
                               virtual_flag, new_patient_flag, web_scheduled) } :
                      /\ patients' = [patients EXCEPT ![loc.patient] = patient]
                      /\ appointments' = Append(appointments, Stored(appointment))
                      /\ loc' = [ loc EXCEPT
                                    !.appt_date = appt_date,
                                    !.patient_total = TotalAfter(loc.patient_total, is_future),
                                    !.patient_no_shows =
                                        NoShowsAfter(loc.patient_no_shows, is_future, status),
                                    !.parent_appointment_id = ParentAfter(loc),
                                    !.appointment_id = loc.appointment_id + 1,
                                    !.appointments_created = loc.appointments_created + 1,
                                    !.appt_num = loc.appt_num + 1 ]
                      /\ cur' = [ appointment |-> appointment,
                                  patient |-> patient,
                                  specialty |-> specialty,
                                  lead_time |-> lead_time,
                                  gamma |-> slot.gamma,
                                  journey_stage |-> journey_stage,
                                  no_show_prob |-> no_show_prob,
                                  is_future |-> is_future,
                                  roll |-> IF is_future THEN None ELSE roll,
                                  pass_number |-> loc.pass_number,
                                  appt_num |-> loc.appt_num ]
                      /\ pc' = "appointment_loop"
    /\ UNCHANGED <<today, cfg, providers, departments, insurance_records, call, result>>

\* lines 618-620 and 786-789: the appointment loop of the patient is over
EndPatient ==
    /\ pc = "appointment_loop"
    /\ \/ loc.appt_num >= loc.num_appointments
       \/ TargetReached(loc)
    /\ loc' = [ loc EXCEPT !.patient_stats[patients[loc.patient].patientid] =
                  [ no_shows |-> loc.patient_no_shows,
                    total |-> loc.patient_total,
                    last_appt_date |-> loc.appt_date ] ]
    /\ pc' = "patient_loop"
    /\ UNCHANGED <<today, cfg, patients, providers, departments, insurance_records,
                   appointments, cur, call, result>>

\* datetime.now() of a day: its first and its last minute
NowDraws(d) == {Combine(d, 0, 0), Combine(d, 23, 59)}

\* statistics that count the appointments of every date
StatisticsOfAllDates(patientid, appts, now) ==
    LET all == { i \in DOMAIN appts : appts[i].patientid = patientid }
    IN  [ total |-> Cardinality(all),
          no_shows |-> Cardinality({ i \in all : no_show(appts[i], now) }) ]

\* the statistics of one patient over the appointments dated today or earlier
StatisticsOf(patientid, appts, now) ==
    LET past == { i \in DOMAIN appts : /\ appts[i].appointmentdate <= today
                                       /\ appts[i].patientid = patientid }
    IN  [ total |-> Cardinality(past),
          no_shows |-> Cardinality({ i \in past : no_show(appts[i], now) }) ]

\* a backfill that keeps only the patients that have statistics
update_patient_statistics_seen(pats, appts, now) ==
    SelectSeq([ i \in DOMAIN pats |->
                  LET stats == StatisticsOf(pats[i].patientid, appts, now)
                  IN  [ pats[i] EXCEPT !.historical_no_show_count = stats.no_shows,
                                       !.historical_no_show_rate =
                                           [num |-> stats.no_shows, den |-> Max(1, stats.total)] ] ],
              LAMBDA p : StatisticsOf(p.patientid, appts, now).total > 0)

\* _update_patient_statistics
update_patient_statistics(pats, appts, now) ==
    [ i \in DOMAIN pats |->
        LET stats == StatisticsOf(pats[i].patientid, appts, now)
        IN  [ pats[i] EXCEPT !.historical_no_show_count = stats.no_shows,
                             !.historical_no_show_rate =
                                 [num |-> stats.no_shows, den |-> Max(1, stats.total)] ] ]

\* lines 794-797: the backfill, and generate_appointments returns
UpdateStatistics ==
    /\ pc = "update_statistics"
    /\ \E now \in NowDraws(today) :
          patients' = update_patient_statistics(patients, appointments, now)
    /\ pc' = "done"
    /\ UNCHANGED <<today, cfg, providers, departments, insurance_records,
                   appointments, loc, cur, call, result>>

Next ==
    \/ GeneratePatients
    \/ GenerateProviders
    \/ GenerateDepartments
    \/ GenerateInsurance
    \/ BeginAppointments
    \/ StartPass
    \/ ExitPassLoop
    \/ BeginPatient
    \/ CreateAppointment
    \/ EndPatient
    \/ EndPass
    \/ UpdateStatistics

Spec == Init /\ [][Next]_vars

\* the program keeps running: a step that can be taken is taken
FairSpec == Spec /\ WF_vars(Next)

---------------------------------------------------------------------------
(* Direct calls of calculate_no_show_probability *)

MaxHistCount == 1
RateDen == 2

\* the calendar dates of the calls: the holiday window, the tax window and none
CallDates ==
    { [month |-> 12, day |-> 25], [month |-> 4, day |-> 10], [month |-> 3, day |-> 1] }

ProbabilityCalls ==
    [ function : {"calculate_no_show_probability"},
      patient : [ patient_age_bucket : AgeBucket,
                  portal_last_login : {None, 91},
                  historical_no_show_count : 0 .. MaxHistCount,
                  historical_no_show_rate : [num : 0 .. RateDen, den : {RateDen}] ],
      appointment_date : CallDates,
      lead_time_days : {0, 7, 90},
      hour_of_day : {8, 12, 15},
      day_of_week : {0, 2},
      virtual_flag : VirtualFlag,
      new_patient_flag : NewPatientFlag,
      payer_group : PayerGrouping,
      web_scheduled : BOOLEAN,
      journey_stage : {"normal", "care_abandonment_escalating"} ]

\* the calls of Appointment.no_show: every status, with and without a check-in,
\* read one minute before, at, and one minute after the appointment date-time
NoShowCalls ==
    [ function : {"no_show"},
      appt : [ appointmentstatus : AppointmentStatus,
               appointmentdate : TodayDraws,
               appointmentstarttime : {[hour |-> 9, minute |-> 30]},
               appointmentcheckindatetime :
                   {None} \cup {Combine(d, 9, 15) : d \in TodayDraws} ],
      now : UNION { {Combine(d, 9, 29), Combine(d, 9, 30), Combine(d, 9, 31)} :
                      d \in TodayDraws } ]

\* the calls of _get_seasonality_modifier: every calendar date of a leap year
DaysInMonth(month) == DaysBeforeMonth(TRUE)[month + 1] - DaysBeforeMonth(TRUE)[month]

SeasonalityCalls ==
    UNION { { [function |-> "_get_seasonality_modifier",
               appointment_date |-> [month |-> m, day |-> d]] :
                d \in 1 .. DaysInMonth(m) } : m \in 1 .. 12 }

\* the largest appointments frame passed to compute_historical_no_show_features
MaxRows == 3

\* the rows of the frames: two patients, two consecutive calendar dates, and a
\* status that counts as a no-show, one that does not, and a future one
FeatureRows ==
    [ patientid : IdRange(MaxPatients),
      appointmentdate : {d + k : d \in TodayDraws, k \in {0, 1}},
      appointmentstatus : {"No Show", "Complete", "Scheduled"} ]

\* the frames: row i carries appointmentid i
FeatureCalls ==
    UNION { [ function : {"compute_historical_no_show_features"},
              appointments : [1 .. n -> FeatureRows] ] : n \in 0 .. MaxRows }

\* lines 59 and 68: the orders sort_values can leave the rows in: by patient,
\* then by date; the order of rows of one patient with the same date is left
\* to the sort algorithm
SortedOrders(rows) ==
    { order \in [DOMAIN rows -> DOMAIN rows] :
        /\ \A a, b \in DOMAIN rows : a # b => order[a] # order[b]
        /\ \A a, b \in DOMAIN rows :
              a < b =>
                \/ rows[order[a]].patientid < rows[order[b]].patientid
                \/ /\ rows[order[a]].patientid = rows[order[b]].patientid
                   /\ rows[order[a]].appointmentdate <= rows[order[b]].appointmentdate }

\* the rows of the same patient sorted before position k
PriorRows(rows, order, k) ==
    { a \in 1 .. k - 1 : rows[order[a]].patientid = rows[order[k]].patientid }

\* lines 65-84: the features of the row at position k of the sorted frame:
\* cumulative_appointments = range(len(group)), cumulative_no_shows =
\* cumsum().shift(1), the rate their quotient or 0.0
HistoryFeaturesAt(rows, order, k) ==
    LET cumulative_appointments == Cardinality(PriorRows(rows, order, k))
        cumulative_no_shows ==
            Cardinality({ a \in PriorRows(rows, order, k) :
                            rows[order[a]].appointmentstatus = "No Show" })
    IN  [ appointmentid |-> order[k],
          patientid |-> rows[order[k]].patientid,
          historical_no_show_count |-> cumulative_no_shows,
          historical_no_show_rate |->
              IF cumulative_appointments > 0
              THEN [num |-> cumulative_no_shows, den |-> cumulative_appointments]
              ELSE [num |-> 0, den |-> 1] ]

compute_historical_no_show_features(rows, order) ==
    [ k \in DOMAIN rows |-> HistoryFeaturesAt(rows, order, k) ]

InitCall ==
    /\ pc = "call"
    /\ today \in TodayDraws
    /\ cfg = [num_patients |-> 0, num_providers |-> 0, num_departments |-> 0, num_appointments |-> 0]
    /\ patients = <<>>
    /\ providers = <<>>
    /\ departments = <<>>
    /\ insurance_records = <<>>
    /\ appointments = <<>>
    /\ loc = NoLocals
    /\ cur = NoIteration
    /\ call \in ProbabilityCalls \cup NoShowCalls \cup SeasonalityCalls \cup FeatureCalls
    /\ result = NoCall

CallProbability ==
    /\ pc = "call"
    /\ call.function = "calculate_no_show_probability"
    /\ result' = [ function |-> call.function,
                   value |-> calculate_no_show_probability(call.patient,
                                 call.appointment_date, call.lead_time_days,
                                 call.hour_of_day, call.day_of_week, call.virtual_flag,
                                 call.new_patient_flag, call.payer_group,
                                 call.web_scheduled, call.journey_stage) ]
    /\ pc' = "returned"
    /\ UNCHANGED <<today, cfg, patients, providers, departments, insurance_records,
                   appointments, loc, cur, call>>

\* appt.no_show read at datetime now
CallNoShow ==
    /\ pc = "call"
    /\ call.function = "no_show"
    /\ result' = [function |-> call.function, value |-> no_show(call.appt, call.now)]
    /\ pc' = "returned"
    /\ UNCHANGED <<today, cfg, patients, providers, departments, insurance_records,
                   appointments, loc, cur, call>>

\* _get_seasonality_modifier(appointment_date)
CallSeasonality ==
    /\ pc = "call"
    /\ call.function = "_get_seasonality_modifier"
    /\ result' = [ function |-> call.function,
                   value |-> GetSeasonalityModifier(call.appointment_date) ]
    /\ pc' = "returned"
    /\ UNCHANGED <<today, cfg, patients, providers, departments, insurance_records,
                   appointments, loc, cur, call>>

\* compute_historical_no_show_features(appointments)
CallHistoryFeatures ==
    /\ pc = "call"
    /\ call.function = "compute_historical_no_show_features"
    /\ \E order \in SortedOrders(call.appointments) :
          result' = [ function |-> call.function,
                      value |-> compute_historical_no_show_features(call.appointments, order) ]
    /\ pc' = "returned"
    /\ UNCHANGED <<today, cfg, patients, providers, departments, insurance_records,
                   appointments, loc, cur, call>>

NextCall == CallProbability \/ CallNoShow \/ CallSeasonality \/ CallHistoryFeatures

SpecCall == InitCall /\ [][NextCall]_vars

---------------------------------------------------------------------------
(* seed_database: truncate_tables, then insert_dataframe table by table *)

\* the rows of the largest dataframe
MaxTableRows == 3
\* batch_size of insert_dataframe, with the default of 100 scaled down to the
\* explored dataframes
BatchSize == 2
max_retries == 3

\* the deletes in the order of the inserts
tables_to_clear_parents_first ==
    <<"Departments", "Providers", "Patients", "Insurance", "Appointments", "Predictions">>

tables_to_clear ==
    <<"Predictions", "Appointments", "Insurance", "Patients", "Providers", "Departments">>

insert_order == <<"departments", "providers", "patients", "insurance", "appointments">>

PARQUET_TO_TABLE(parquet_name) ==
    CASE parquet_name = "departments"  -> "Departments"
      [] parquet_name = "providers"    -> "Providers"
      [] parquet_name = "patients"     -> "Patients"
      [] parquet_name = "insurance"    -> "Insurance"
      [] parquet_name = "appointments" -> "Appointments"

\* the calls: with and without truncate, with and without a server to
\* reconnect to; each dataframe is absent (None), empty or of MaxTableRows rows
SeedCalls ==
    [ function : {"seed_database"},
      truncate : BOOLEAN,
      server : {"", "sql"},
      dataframes : [Range(insert_order) -> {None, 0, MaxTableRows}] ]

\* the outcomes of one pass through the try block of lines 356-362: both
\* statements succeed, or executemany or commit raises a pyodbc.Error whose
\* code is one of 08S01, 08001, 01000 or another one
BatchOutcomes ==
    {"ok", "executemany_connection_error", "executemany_error",
     "commit_connection_error", "commit_error"}

\* every pyodbc.Error taken for a lost connection
is_any_error(outcome) == outcome # "ok"

is_connection_error(outcome) ==
    outcome \in {"executemany_connection_error", "commit_connection_error"}

\* the state of a run: the position in tables_to_clear and in insert_order,
\* the locals of insert_dataframe, the transaction open on the current
\* connection (pending) and what the database has committed
SeedLocals ==
    [ clear_index |-> 1, deleted |-> <<>>, table_index |-> 1,
      i |-> 0, attempt |-> 0, inserted |-> 0, total |-> 0,
      pending |-> <<>>, committed |-> <<>>, results |-> <<>> ]

NoStep == [step |-> "none", outcome |-> "none", reconnected |-> FALSE]

InitSeed ==
    /\ pc = "seed_database"
    /\ today \in TodayDraws
    /\ cfg = [num_patients |-> 0, num_providers |-> 0, num_departments |-> 0, num_appointments |-> 0]
    /\ patients = <<>>
    /\ providers = <<>>
    /\ departments = <<>>
    /\ insurance_records = <<>>
    /\ appointments = <<>>
    /\ loc = SeedLocals
    /\ cur = NoStep
    /\ call \in SeedCalls
    /\ result = NoCall

\* lines 410-411: if truncate: truncate_tables(connection)
SeedDatabase ==
    /\ pc = "seed_database"
    /\ pc' = IF call.truncate THEN "truncate_tables" ELSE "insert_order"
    /\ UNCHANGED <<today, cfg, patients, providers, departments, insurance_records,
                   appointments, loc, cur, call, result>>

\* lines 260-267: one DELETE of truncate_tables, committed, or failing with a
\* pyodbc.Error that is logged and rolled back
ClearTable ==
    /\ pc = "truncate_tables"
    /\ \E outcome \in {"ok", "error"} :
          cur' = [step |-> "delete", outcome |-> outcome, reconnected |-> FALSE]
    /\ loc' = [ loc EXCEPT !.deleted = Append(@, tables_to_clear[loc.clear_index]),
                           !.clear_index = @ + 1 ]
    /\ pc' = IF loc.clear_index = Len(tables_to_clear) THEN "insert_order"
             ELSE "truncate_tables"
    /\ UNCHANGED <<today, cfg, patients, providers, departments, insurance_records,
                   appointments, call, result>>

\* lines 417-430: the next name of insert_order; a dataframe that is present
\* starts insert_dataframe (lines 333-351)
NextTable ==
    /\ pc = "insert_order"
    /\ loc.table_index <= Len(insert_order)
    /\ LET parquet_name == insert_order[loc.table_index]
       IN  IF call.dataframes[parquet_name] # None
           THEN /\ loc' = [ loc EXCEPT !.i = 0, !.attempt = 0, !.inserted = 0,
                                       !.total = call.dataframes[parquet_name],
                                       !.pending = <<>> ]
                /\ pc' = "insert_dataframe"
           ELSE /\ loc' = [loc EXCEPT !.table_index = @ + 1]
                /\ pc' = "insert_order"
    /\ cur' = NoStep
    /\ UNCHANGED <<today, cfg, patients, providers, departments, insurance_records,
                   appointments, call, result>>

\* the batch rows[i : i + batch_size] of the current table
Batch(l) ==
    [ table |-> PARQUET_TO_TABLE(insert_order[l.table_index]),
      offset |-> l.i,
      rows |-> Min(BatchSize, l.total - l.i) ]

\* lines 353-385: one attempt of the batch at offset i
AttemptBatch ==
    /\ pc = "insert_dataframe"
    /\ loc.i < loc.total
    /\ \E outcome \in BatchOutcomes, reconnect \in BOOLEAN :
          LET executed == Append(loc.pending, Batch(loc))
              retry == /\ is_connection_error(outcome)
                       /\ loc.attempt < max_retries - 1
                       /\ call.server # ""
          IN  IF outcome = "ok"
              THEN /\ loc' = [ loc EXCEPT !.committed = @ \o executed,
                                          !.pending = <<>>,
                                          !.inserted = @ + Batch(loc).rows,
                                          !.i = @ + BatchSize,
                                          !.attempt = 0 ]
                   /\ cur' = [step |-> "batch", outcome |-> outcome, reconnected |-> FALSE]
                   /\ pc' = "insert_dataframe"
                   /\ UNCHANGED result
              ELSE IF retry /\ reconnect
              THEN \* create_connection succeeded: the transaction of the old
                   \* connection is abandoned, continue with the next attempt
                   /\ loc' = [loc EXCEPT !.pending = <<>>, !.attempt = @ + 1]
                   /\ cur' = [step |-> "batch", outcome |-> outcome, reconnected |-> TRUE]
                   /\ pc' = "insert_dataframe"
                   /\ UNCHANGED result
              ELSE \* lines 379-385: rollback and raise
                   /\ loc' = [loc EXCEPT !.pending = <<>>]
                   /\ cur' = [step |-> "batch", outcome |-> outcome, reconnected |-> FALSE]
                   /\ pc' = "raised"
                   /\ result' = [function |-> "insert_dataframe", raised |-> outcome]
    /\ UNCHANGED <<today, cfg, patients, providers, departments, insurance_records,
                   appointments, call>>

\* lines 387-388 and 431: insert_dataframe returns inserted, seed_database
\* stores it in results
ReturnInserted ==
    /\ pc = "insert_dataframe"
    /\ loc.i >= loc.total
    /\ loc' = [ loc EXCEPT !.results = Append(@, [ table |-> PARQUET_TO_TABLE(insert_order[loc.table_index]),
                                                   count |-> loc.inserted ]),
                           !.table_index = @ + 1 ]
    /\ cur' = NoStep
    /\ pc' = "insert_order"
    /\ UNCHANGED <<today, cfg, patients, providers, departments, insurance_records,
                   appointments, call, result>>

\* line 434: return results, connection
ReturnSeed ==
    /\ pc = "insert_order"
    /\ loc.table_index > Len(insert_order)
    /\ result' = [function |-> "seed_database", value |-> loc.results]
    /\ pc' = "returned"
    /\ UNCHANGED <<today, cfg, patients, providers, departments, insurance_records,
                   appointments, loc, cur, call>>

NextSeed ==
    \/ SeedDatabase
    \/ ClearTable
    \/ NextTable
    \/ AttemptBatch
    \/ ReturnInserted
    \/ ReturnSeed

SpecSeed == InitSeed /\ [][NextSeed]_vars

---------------------------------------------------------------------------
(* deploy_model and wait_for_deployment *)

\* the longest wait of a direct call of wait_for_deployment, in minutes
MaxWaitMinutes == 2
\* the defaults of wait_for_deployment
poll_interval_default == 30
max_wait_minutes_default == 20

\* what online_deployments.get can answer: a deployment in one of the
\* provisioning states of the service, or an exception: the deployment is
\* "not found", or another error
ProvisioningStates ==
    {"Succeeded", "Failed", "Canceled", "Creating", "Updating", "Deleting", "Scaling"}

GetOutcomes == ProvisioningStates \cup {"not found", "error"}

DeployCalls ==
    [ function : {"wait_for_deployment"},
      poll_interval : {poll_interval_default, 2 * poll_interval_default},
      max_wait_minutes : 0 .. MaxWaitMinutes ]
    \cup
    [ function : {"deploy_model"},
      poll_interval : {poll_interval_default},
      max_wait_minutes : {max_wait_minutes_default} ]

\* the poll budget without the division by poll_interval
max_iterations_in_seconds(c) == c.max_wait_minutes * 60

\* line 186
max_iterations(c) == (c.max_wait_minutes * 60) \div c.poll_interval

\* the locals: the polls made (i of line 187, counted from the first), the
\* branch of deploy_model the wait was called from, whether the deployment
\* was created, the endpoint traffic given to the deployment (None as long
\* as it is unchanged) and whether a get has observed Succeeded
DeployLocals ==
    [ polls |-> 0, branch |-> NoneStr, created |-> FALSE, traffic |-> None,
      seen_succeeded |-> FALSE ]

NoObservation == [step |-> "none", observed |-> NoneStr]

InitDeploy ==
    /\ call \in DeployCalls
    /\ pc = call.function
    /\ today \in TodayDraws
    /\ cfg = [num_patients |-> 0, num_providers |-> 0, num_departments |-> 0, num_appointments |-> 0]
    /\ patients = <<>>
    /\ providers = <<>>
    /\ departments = <<>>
    /\ insurance_records = <<>>
    /\ appointments = <<>>
    /\ loc = DeployLocals
    /\ cur = NoObservation
    /\ result = NoCall

\* line 234: the exceptions the handler of deploy_model takes as a request to
\* create the deployment
CreatesDeployment(message) == message \in {"not found", "recreate"}

\* lines 219-235: the state of the existing deployment decides
CheckExisting ==
    /\ pc = "deploy_model"
    /\ \E observed \in GetOutcomes :
          /\ cur' = [step |-> "get", observed |-> observed]
          /\ loc' = [ loc EXCEPT !.seen_succeeded = (observed = "Succeeded"),
                                 !.branch = IF observed \in {"Creating", "Updating"}
                                            THEN "existing" ELSE loc.branch ]
          /\ IF observed = "Succeeded"
             THEN pc' = "route_traffic" /\ UNCHANGED result
             ELSE IF observed \in {"Creating", "Updating"}
             THEN pc' = "wait_for_deployment" /\ UNCHANGED result
             ELSE IF observed \in {"Failed", "Canceled"}
             THEN pc' = (IF CreatesDeployment("recreate") THEN "create_deployment" ELSE "raised")
                  /\ UNCHANGED result
             ELSE IF observed \in {"not found", "error"}
             THEN IF CreatesDeployment(observed)
                  THEN pc' = "create_deployment" /\ UNCHANGED result
                  ELSE /\ pc' = "raised"
                       /\ result' = [function |-> "deploy_model", raised |-> observed]
             ELSE \* no branch of lines 224-232 matches: the try block ends
                  pc' = "route_traffic" /\ UNCHANGED result
    /\ UNCHANGED <<today, cfg, patients, providers, departments, insurance_records,
                   appointments, call>>

\* lines 238-267: begin_create_or_update, without waiting for its result
CreateDeployment ==
    /\ pc = "create_deployment"
    /\ loc' = [loc EXCEPT !.created = TRUE, !.branch = "created"]
    /\ cur' = [step |-> "begin_create_or_update", observed |-> NoneStr]
    /\ pc' = "wait_for_deployment"
    /\ UNCHANGED <<today, cfg, patients, providers, departments, insurance_records,
                   appointments, call, result>>

\* where wait_for_deployment returns to
AfterWait(c) == IF c.function = "deploy_model" THEN "route_traffic" ELSE "returned"

\* where an exception of wait_for_deployment ends: called at line 228 it
\* passes the handler of lines 233-235, called at line 267 it propagates
AfterRaise(l, message) ==
    IF l.branch = "existing" /\ CreatesDeployment(message)
    THEN "create_deployment" ELSE "raised"

\* lines 187-204: one poll
Poll ==
    /\ pc = "wait_for_deployment"
    /\ loc.polls < max_iterations(call)
    /\ \E observed \in GetOutcomes :
          /\ cur' = [step |-> "poll", observed |-> observed]
          /\ loc' = [ loc EXCEPT !.polls = @ + 1,
                                 !.seen_succeeded = (observed = "Succeeded") ]
          /\ IF observed = "Succeeded"
             THEN /\ pc' = AfterWait(call)
                  /\ result' = [function |-> "wait_for_deployment", value |-> observed]
             ELSE IF observed \in {"Failed", "Canceled"}
             THEN /\ pc' = AfterRaise(loc, "RuntimeError")
                  /\ result' = [function |-> "wait_for_deployment", raised |-> "RuntimeError"]
             ELSE IF observed = "error"
             THEN /\ pc' = AfterRaise(loc, observed)
                  /\ result' = [function |-> "wait_for_deployment", raised |-> observed]
             ELSE \* another state, or not found: sleep and poll again
                  pc' = "wait_for_deployment" /\ UNCHANGED result
    /\ UNCHANGED <<today, cfg, patients, providers, departments, insurance_records,
                   appointments, call>>

\* line 206: the loop ended
TimeOut ==
    /\ pc = "wait_for_deployment"
    /\ loc.polls >= max_iterations(call)
    /\ pc' = AfterRaise(loc, "TimeoutError")
    /\ result' = [function |-> "wait_for_deployment", raised |-> "TimeoutError"]
    /\ cur' = [step |-> "timeout", observed |-> cur.observed]
    /\ UNCHANGED <<today, cfg, patients, providers, departments, insurance_records,
                   appointments, call, loc>>

\* lines 269-281: all traffic to the deployment
RouteTraffic ==
    /\ pc = "route_traffic"
    /\ loc' = [loc EXCEPT !.traffic = 100]
    /\ result' = [function |-> "deploy_model", value |-> cur.observed]
    /\ pc' = "returned"
    /\ UNCHANGED <<today, cfg, patients, providers, departments, insurance_records,
                   appointments, call, cur>>

NextDeploy ==
    \/ CheckExisting
    \/ CreateDeployment
    \/ Poll
    \/ TimeOut
    \/ RouteTraffic

SpecDeploy == InitDeploy /\ [][NextDeploy]_vars

\* the program runs on: it sleeps poll_interval seconds and polls again
FairSpecDeploy == SpecDeploy /\ WF_vars(NextDeploy)

---------------------------------------------------------------------------
(* Properties *)

Returned == pc = "returned" /\ result.function = "calculate_no_show_probability"

\* the unclamped sum of the call, in units of 1 / ProbDen
RawProbability(c) ==
    (ProbDen(c.patient) \div 100)
        * FixedDeltas(c.patient, c.appointment_date, c.lead_time_days, c.hour_of_day,
                      c.day_of_week, c.virtual_flag, c.new_patient_flag, c.payer_group,
                      c.web_scheduled, c.journey_stage)
    + HistoryImpact(c.patient)

\* C1: whatever the patient, the date, the lead time, the hour, the weekday,
\* the modality, the new-patient flag, the payer group, the web flag and the
\* journey stage, calculate_no_show_probability returns p with 0.03 <= p <= 0.85
C1_ProbabilityClamped ==
    Returned =>
        /\ 3 * result.value.den <= 100 * result.value.num
        /\ 100 * result.value.num <= 85 * result.value.den

\* a call whose unclamped sum is above 0.85 has returned
C1_Witness ==
    /\ Returned
    /\ 100 * RawProbability(call) > 85 * ProbDen(call.patient)
    /\ 100 * result.value.num = 85 * result.value.den

\* an appointment has been created: cur holds the last iteration
Created == cur.appointment.appointmentid # None

Ids(list, field) == { list[i][field] : i \in DOMAIN list }

\* C2: in every state of a run, every appointment refers to a patient, a
\* provider and a department of the generated lists, in every pass and also
\* when the provider or the department comes from the fallback pool
C2_ReferencesValid ==
    \A i \in DOMAIN appointments :
        /\ appointments[i].patientid \in Ids(patients, "patientid")
        /\ appointments[i].providerid \in Ids(providers, "providerid")
        /\ appointments[i].departmentid \in Ids(departments, "departmentid")

\* the last appointment was of a specialty no provider has, with two providers
\* to fall back on
C2_Witness ==
    /\ Created
    /\ Len(providers) = 2
    /\ \A i \in DOMAIN providers : providers[i].provider_specialty # cur.specialty
    /\ appointments[Len(appointments)].providerid \in Ids(providers, "providerid")

\* C3: patients, providers, departments and appointments are numbered 1..n in
\* the order of their lists, the appointment numbers running on across the
\* passes, and no two patients share an enterprise id
C3_SequentialIds ==
    /\ \A i \in DOMAIN patients : patients[i].patientid = i
    /\ \A i \in DOMAIN providers : providers[i].providerid = i
    /\ \A i \in DOMAIN departments : departments[i].departmentid = i
    /\ \A i \in DOMAIN appointments : appointments[i].appointmentid = i
    /\ \A i, j \in DOMAIN patients :
          patients[i].enterpriseid = patients[j].enterpriseid => i = j

\* an appointment numbered 2 or more was created in a second pass
C3_Witness ==
    /\ Created
    /\ cur.pass_number >= 2
    /\ cur.appointment.appointmentid >= 2
    /\ appointments[Len(appointments)].appointmentid = Len(appointments)

InsuranceGenerated ==
    pc \notin {"generate_patients", "generate_providers", "generate_departments",
               "generate_insurance", "call", "returned"}

\* C4: once the insurance is generated, every patient has exactly one
\* insurance record, its primary-insurance id is the patient's id, and no
\* record is of anybody else
C4_InsuranceOneToOne ==
    InsuranceGenerated =>
        /\ Len(insurance_records) = Len(patients)
        /\ \A i \in DOMAIN patients :
              LET own == { j \in DOMAIN insurance_records :
                             insurance_records[j].patientid = patients[i].patientid }
              IN  /\ Cardinality(own) = 1
                  /\ \A j \in own :
                        insurance_records[j].primarypatientinsuranceid =
                            patients[i].patientid

C4_Witness == InsuranceGenerated /\ Len(insurance_records) = 2 /\ pc = "done"

GoodConfig ==
    /\ cfg.num_patients >= 1
    /\ cfg.num_providers >= 1
    /\ cfg.num_departments >= 1
    /\ cfg.num_appointments >= 1

\* C5: with at least one patient, provider and department and a positive
\* target, every visit of a patient has a quota of at least one appointment,
\* generate_appointments eventually returns, and it returns at least the
\* target number of appointments
C5_Terminates ==
    /\ [](GoodConfig /\ pc = "appointment_loop" => loc.num_appointments >= 1)
    /\ GoodConfig ~> (pc = "done" /\ Len(appointments) >= cfg.num_appointments)

\* a run of three appointments that took a second pass has returned
C5_Witness ==
    /\ GoodConfig
    /\ pc = "done"
    /\ loc.pass_number >= 2
    /\ Len(appointments) >= cfg.num_appointments

\* C6 as stated: a returned run can hold more appointments than the target; as
\* an invariant, the runs that return with a quota still open hold more than
\* the target
C6_Overshoots ==
    pc = "done" /\ GoodConfig /\ loc.appt_num < loc.num_appointments
        => Len(appointments) > cfg.num_appointments

\* C6, amended: the list never holds more appointments than the target, and
\* generate_appointments returns exactly the target number of appointments
\* (none for a target of zero or less)
C6_ExactCount ==
    /\ Len(appointments) <= Max(0, cfg.num_appointments)
    /\ pc = "done" => Len(appointments) = Max(0, cfg.num_appointments)

\* the run returned while the quota of the last patient was still open
C6_Witness ==
    /\ pc = "done"
    /\ GoodConfig
    /\ loc.appt_num < loc.num_appointments
    /\ Len(appointments) = cfg.num_appointments

BadConfig ==
    \/ cfg.num_patients <= 0
    \/ cfg.num_providers <= 0
    \/ cfg.num_departments <= 0

\* C7: with a zero or negative number of patients, providers or departments
\* the run stops before anything is generated: no list is ever filled and the
\* appointment generation is never entered
C7_FailsFast ==
    BadConfig =>
        /\ patients = <<>> /\ providers = <<>> /\ departments = <<>>
        /\ insurance_records = <<>> /\ appointments = <<>>
        /\ pc \notin {"pass_loop", "patient_loop", "appointment_loop",
                      "update_statistics", "done", "IndexError"}

\* C8: every appointment has one of the four statuses; it is scheduled exactly
\* when its date is after today; otherwise, with roll r and probability p, it
\* is a no-show exactly when r < p, cancelled exactly when p <= r < p + 0.10,
\* complete exactly when r >= p + 0.10
C8_StatusByRoll ==
    /\ \A i \in DOMAIN appointments :
          /\ appointments[i].appointmentstatus \in
                {"Scheduled", "No Show", "Cancelled", "Complete"}
          /\ appointments[i].appointmentstatus = "Scheduled"
                <=> appointments[i].appointmentdate > today
    /\ Created /\ cur.appointment.appointmentdate <= today =>
          LET status == cur.appointment.appointmentstatus
              r == cur.roll * cur.no_show_prob.den
              p == 100 * cur.no_show_prob.num
              tenth == 10 * cur.no_show_prob.den
          IN  /\ status = "No Show" <=> r < p
              /\ status = "Cancelled" <=> (p <= r /\ r < p + tenth)
              /\ status = "Complete" <=> r >= p + tenth

\* the roll of the last appointment equals its probability
C8_Witness ==
    /\ Created
    /\ cur.appointment.appointmentdate <= today
    /\ cur.roll * cur.no_show_prob.den = 100 * cur.no_show_prob.num
    /\ cur.appointment.appointmentstatus = "Cancelled"

\* C9: an appointment has a check-in time and a check-out time exactly when it
\* is complete; the check-in is then before the start and the check-out after
\* the start plus the duration
C9_CheckTimes ==
    /\ \A i \in DOMAIN appointments :
          appointments[i].appointmentcheckindatetime # None
              <=> appointments[i].appointmentstatus = "Complete"
    /\ Created =>
          LET a == cur.appointment
              start == appointmentdatetime(a)
          IN  /\ a.appointmentcheckindatetime # None <=> a.appointmentstatus = "Complete"
              /\ a.appointmentcheckoutdatetime # None <=> a.appointmentstatus = "Complete"
              /\ a.appointmentstatus = "Complete" =>
                    /\ a.appointmentcheckindatetime < start
                    /\ a.appointmentcheckoutdatetime > start + a.appointmentduration

\* the last appointment is complete, checked out five minutes after its end
C9_Witness ==
    /\ Created
    /\ cur.appointment.appointmentstatus = "Complete"
    /\ cur.appointment.appointmentcheckoutdatetime =
          appointmentdatetime(cur.appointment) + cur.appointment.appointmentduration + 5

\* the earlier appointments of the patient of the last one, dated today or before
EarlierOf(patientid) ==
    { i \in 1 .. Len(appointments) - 1 :
        /\ appointments[i].patientid = patientid
        /\ appointments[i].appointmentdate <= today }

\* C10: the historical count and rate the probability of an appointment is
\* computed from are the number of no-shows, and that number over max(1, total),
\* among the non-future appointments of the same patient created earlier in the
\* run, in this pass or a pass before
C10_HistoryFromEarlier ==
    Created =>
        LET earlier == EarlierOf(cur.appointment.patientid)
            no_shows == { i \in earlier : appointments[i].appointmentstatus = "No Show" }
        IN  /\ cur.patient.historical_no_show_count = Cardinality(no_shows)
            /\ cur.patient.historical_no_show_rate =
                  [num |-> Cardinality(no_shows), den |-> Max(1, Cardinality(earlier))]

\* the last appointment is of a second pass, of a patient with a no-show and
\* with a future appointment before it
C10_Witness ==
    /\ Created
    /\ cur.pass_number >= 2
    /\ cur.patient.historical_no_show_count >= 1
    /\ \E i \in 1 .. Len(appointments) - 1 :
          /\ appointments[i].patientid = cur.appointment.patientid
          /\ appointments[i].appointmentdate > today

\* the returned appointments of a patient dated today or earlier
PastOf(patientid) ==
    { i \in DOMAIN appointments :
        /\ appointments[i].patientid = patientid
        /\ appointments[i].appointmentdate <= today }

\* C11: after generate_appointments returns, each patient's
\* historical_no_show_count is the number of the patient's appointments dated
\* today or earlier whose no_show property is true (at whatever time of today
\* it is read), the rate is that number over max(1, number of the patient's
\* appointments dated today or earlier), so 0 and 0 for a patient without such
\* appointments; future appointments do not count
C11_BackfilledStatistics ==
    pc = "done" =>
        \A i \in DOMAIN patients : \A now \in NowDraws(today) :
            LET past == PastOf(patients[i].patientid)
                count == Cardinality({ j \in past : no_show(appointments[j], now) })
            IN  /\ patients[i].historical_no_show_count = count
                /\ patients[i].historical_no_show_rate =
                      [num |-> count, den |-> Max(1, Cardinality(past))]
                /\ past = {} =>
                      /\ patients[i].historical_no_show_count = 0
                      /\ patients[i].historical_no_show_rate.num = 0

\* returned with two patients: one with a no-show and a future appointment,
\* the other without any appointment
C11_Witness ==
    /\ pc = "done"
    /\ Len(patients) = 2
    /\ \E i, k \in DOMAIN patients :
          /\ patients[i].historical_no_show_count = 1
          /\ \E j \in DOMAIN appointments :
                /\ appointments[j].patientid = patients[i].patientid
                /\ appointments[j].appointmentdate > today
          /\ \A j \in DOMAIN appointments :
                appointments[j].patientid # patients[k].patientid

NoShowReturned == pc = "returned" /\ result.function = "no_show"

\* C12: no_show is true exactly when the status is No Show, or the status is
\* Scheduled, the appointment date-time is before now and no check-in is
\* recorded; it is false for complete, cancelled and every other status, for a
\* scheduled appointment not yet past, and for a scheduled one with a check-in
C12_NoShowProperty ==
    NoShowReturned =>
        LET a == call.appt
            start == a.appointmentdate * 1440 + a.appointmentstarttime.hour * 60
                        + a.appointmentstarttime.minute
        IN  /\ result.value <=>
                  \/ a.appointmentstatus = "No Show"
                  \/ /\ a.appointmentstatus = "Scheduled"
                     /\ start < call.now
                     /\ a.appointmentcheckindatetime = None
            /\ a.appointmentstatus \notin {"No Show", "Scheduled"} => ~result.value
            /\ a.appointmentstatus = "Scheduled" /\ start >= call.now => ~result.value
            /\ a.appointmentstatus = "Scheduled" /\ a.appointmentcheckindatetime # None
                  => ~result.value

\* a scheduled appointment, past and without a check-in, was read as a no-show
C12_Witness ==
    /\ NoShowReturned
    /\ call.appt.appointmentstatus = "Scheduled"
    /\ call.appt.appointmentcheckindatetime = None
    /\ result.value = TRUE

\* C13: the scheduled date-time of an appointment is the midnight of its date
\* minus the drawn lead time in days, its lead_time_days is the lead time given
\* to the probability model, and that lead time is in 0..90
C13_LeadTime ==
    Created =>
        /\ cur.appointment.appointmentscheduleddatetime =
              cur.appointment.appointmentdate * 1440 - cur.lead_time * 1440
        /\ lead_time_days(cur.appointment) = cur.lead_time
        /\ 0 <= cur.lead_time /\ cur.lead_time <= 90

\* the gamma draw of the last appointment was above 90 days
C13_Witness ==
    /\ Created
    /\ cur.gamma > 90
    /\ lead_time_days(cur.appointment) = 90

---------------------------------------------------------------------------
(* Two runs of generate_all_data with the same parameters and the same seed *)

\* the clock of a run (datetime.now), in minutes
ClockDraws == UNION { {Combine(d, 9, 0), Combine(d, 9, 1)} : d \in TodayDraws }

\* hash(appt_type_name) of a process: str hashes are salted per process
HashDraws == {17, 1042}

\* the seeded draws for the portal of a patient: random.random() < 0.70, and
\* days_ago from random.randint(1, 60) or random.randint(91, 365)
PortalDraws ==
    {[has_portal |-> FALSE, days_ago |-> 0]}
        \cup {[has_portal |-> TRUE, days_ago |-> k] : k \in {1, 60, 91, 365}}

\* lines 236-241: portal_login, an absolute date-time
portal_login(drawn, now) ==
    IF drawn.has_portal THEN now - drawn.days_ago * 1440 ELSE None

\* what a run returns, as far as it depends on the clock and on the process:
\* the patients (portal_last_login an absolute date-time here) and the
\* appointmenttypeid of line 766
RunOutput(count, drawn, now, str_hash) ==
    [ patients |-> [ patient_id \in IdRange(count) |->
                       Patient(patient_id, "18-39", portal_login(drawn[patient_id], now)) ],
      appointmenttypeid |-> str_hash % 1000 ]

\* the two runs: the same count and the same seeded draws, each run with the
\* clock and the hash salt of its own process, the second run not before the first
RunCalls ==
    { c \in [ function : {"generate_all_data"},
              num_patients : 0 .. MaxPatients,
              drawn : [1 .. MaxPatients -> PortalDraws],
              now : [first : ClockDraws, second : ClockDraws],
              str_hash : [first : HashDraws, second : HashDraws] ] :
        c.now.first <= c.now.second }

InitRuns ==
    /\ pc = "first_run"
    /\ today \in TodayDraws
    /\ cfg = [num_patients |-> 0, num_providers |-> 0, num_departments |-> 0, num_appointments |-> 0]
    /\ patients = <<>>
    /\ providers = <<>>
    /\ departments = <<>>
    /\ insurance_records = <<>>
    /\ appointments = <<>>
    /\ loc = NoLocals
    /\ cur = NoIteration
    /\ call \in RunCalls
    /\ result = NoCall

FirstRun ==
    /\ pc = "first_run"
    /\ result' = [ function |-> call.function,
                   first |-> RunOutput(call.num_patients, call.drawn, call.now.first,
                                       call.str_hash.first) ]
    /\ pc' = "second_run"
    /\ UNCHANGED <<today, cfg, patients, providers, departments, insurance_records,
                   appointments, loc, cur, call>>

SecondRun ==
    /\ pc = "second_run"
    /\ result' = [ function |-> call.function,
                   first |-> result.first,
                   second |-> RunOutput(call.num_patients, call.drawn, call.now.second,
                                        call.str_hash.second) ]
    /\ pc' = "both_run"
    /\ UNCHANGED <<today, cfg, patients, providers, departments, insurance_records,
                   appointments, loc, cur, call>>

NextRuns == FirstRun \/ SecondRun

SpecRuns == InitRuns /\ [][NextRuns]_vars

\* C14: two runs with the same parameters and the same seed return the same
\* records, field by field
C14_Deterministic ==
    pc = "both_run" => result.first = result.second

---------------------------------------------------------------------------
(* Direct calls of generate_appointments with a window *)

\* the window arguments: each omitted or given; a given window ends today and
\* a given start is 100 days before today
WindowCalls(t) ==
    [ function : {"generate_appointments"},
      start_date : {None, t - 100},
      end_date : {None, t} ]

\* one patient, one provider and one department, built by the generators, and
\* a target of up to one appointment more than in the runs of generate_all_data
InitWindow ==
    /\ pc = "generate_appointments"
    /\ today \in TodayDraws
    /\ cfg \in [ num_patients : {1}, num_providers : {1}, num_departments : {1},
                  num_appointments : 0 .. MaxAppointments + 1 ]
    /\ \E drawn \in [IdRange(1) -> PatientDraws] : patients = generate_patients(1, drawn)
    /\ \E specialty \in [IdRange(1) -> Range(SPECIALTIES)] :
          /\ providers = generate_providers(1, specialty)
          /\ departments = generate_departments(1, specialty)
    /\ \E payer_group \in [IdRange(1) -> PayerDraws] :
          insurance_records = generate_insurance(patients, payer_group)
    /\ appointments = <<>>
    /\ loc = NoLocals
    /\ cur = NoIteration
    /\ call \in WindowCalls(today)
    /\ result = NoCall

NextAppointments ==
    \/ BeginAppointments
    \/ StartPass
    \/ ExitPassLoop
    \/ BeginPatient
    \/ CreateAppointment
    \/ EndPatient
    \/ EndPass
    \/ UpdateStatistics

SpecWindow == InitWindow /\ [][NextAppointments]_vars

\* C15: every appointment date lies in the window [start_date, end_date] of
\* the call, the default one or the one the caller gave, however the date was
\* drawn
C15_DatesInWindow ==
    \A i \in DOMAIN appointments :
        /\ loc.start_date <= appointments[i].appointmentdate
        /\ appointments[i].appointmentdate <= loc.end_date

\* the appointments of the same patient created before appointment i
PrecedingOf(i) ==
    { j \in 1 .. i - 1 : appointments[j].patientid = appointments[i].patientid }

\* C16 as stated: an appointment that is not the first created for its
\* patient in the run has as parent the patient's immediately preceding
\* appointment, and only the patient's first appointment has no parent
C16_ParentChain ==
    \A i \in DOMAIN appointments :
        IF PrecedingOf(i) = {}
        THEN appointments[i].parentappointmentid = None
        ELSE appointments[i].parentappointmentid =
                appointments[CHOOSE j \in PrecedingOf(i) :
                                \A k \in PrecedingOf(i) : k <= j].appointmentid

\* C16, amended: the first appointment of every visit of a patient (one visit
\* per pass) has no parent, also when the patient has appointments of earlier
\* passes; every other appointment has as parent the appointment created just
\* before it, which is of the same patient
C16_ParentInVisit ==
    /\ \A i \in DOMAIN appointments :
          \/ appointments[i].parentappointmentid = None
          \/ /\ i > 1
             /\ appointments[i].parentappointmentid = appointments[i - 1].appointmentid
             /\ appointments[i - 1].patientid = appointments[i].patientid
    /\ Created =>
          (cur.appointment.parentappointmentid = None <=> cur.appt_num = 0)

\* a patient's second-pass visit: its first appointment has no parent although
\* the patient has an earlier one, its second has the first as parent
C16_Witness ==
    /\ Created
    /\ cur.pass_number = 2
    /\ Len(appointments) = 3
    /\ PrecedingOf(2) = {1}
    /\ appointments[2].parentappointmentid = None
    /\ appointments[3].parentappointmentid = 2

\* the providers and the departments of a specialty
ProvidersOf(specialty) ==
    { p \in Range(providers) : p.provider_specialty = specialty }

DepartmentsOf(specialty) ==
    { d \in Range(departments) : d.departmentspecialty = specialty }

\* C17: when a provider (a department) of the specialty chosen for an
\* appointment exists, the appointment gets one of them; when none exists it
\* gets one of the whole list; and with a provider and a department in the
\* lists the run never fails for want of one
C17_SpecialtyOrFallback ==
    /\ Created =>
          /\ IF ProvidersOf(cur.specialty) # {}
             THEN cur.appointment.providerid \in
                     { p.providerid : p \in ProvidersOf(cur.specialty) }
             ELSE cur.appointment.providerid \in Ids(providers, "providerid")
          /\ IF DepartmentsOf(cur.specialty) # {}
             THEN cur.appointment.departmentid \in
                     { d.departmentid : d \in DepartmentsOf(cur.specialty) }
             ELSE cur.appointment.departmentid \in Ids(departments, "departmentid")
    /\ providers # <<>> /\ departments # <<>> => pc # "IndexError"

\* the provider was picked among those of the specialty, leaving another one
\* out, and the department came from the whole list
C17_Witness ==
    /\ Created
    /\ ProvidersOf(cur.specialty) # {}
    /\ Len(providers) = 2
    /\ Cardinality(ProvidersOf(cur.specialty)) = 1
    /\ DepartmentsOf(cur.specialty) = {}
    /\ cur.appointment.departmentid \in Ids(departments, "departmentid")

\* generate_appointments is running
InGenerateAppointments ==
    pc \in {"generate_appointments", "pass_loop", "patient_loop", "appointment_loop",
            "update_statistics"}

\* a patient record without its two running statistics
WithoutStatistics(patient) ==
    [ patient EXCEPT !.historical_no_show_count = 0,
                     !.historical_no_show_rate = [num |-> 0, den |-> 1] ]

\* C18: a step of generate_appointments leaves the providers, the departments
\* and the insurance records as they are, keeps the patients in number and
\* order and changes of them only historical_no_show_count and
\* historical_no_show_rate, and leaves every appointment already in the result
\* as it is
C18_Frame ==
    [][ InGenerateAppointments =>
          /\ providers' = providers
          /\ departments' = departments
          /\ insurance_records' = insurance_records
          /\ Len(patients') = Len(patients)
          /\ \A i \in DOMAIN patients :
                WithoutStatistics(patients'[i]) = WithoutStatistics(patients[i])
          /\ Len(appointments') >= Len(appointments)
          /\ \A i \in DOMAIN appointments : appointments'[i] = appointments[i] ]_vars

\* returned with two patients, one of them with a changed no-show count, and
\* with two appointments
C18_Witness ==
    /\ pc = "done"
    /\ Len(patients) = 2
    /\ Len(appointments) = 2
    /\ \E i \in DOMAIN patients : patients[i].historical_no_show_count >= 1

\* the appointments of the patient of the last one, the last one included
RunPositionOfLast ==
    Cardinality({ j \in DOMAIN appointments :
                    appointments[j].patientid = cur.appointment.patientid })

\* C19: the escalation stage (+0.20) is given to an appointment exactly when
\* its patient's journey is care_abandonment and it is the third or a later
\* appointment of the patient, counted over the whole run
C19_EscalationOverRun ==
    Created =>
        ( cur.journey_stage = "care_abandonment_escalating"
            <=> /\ loc.patient_journeys[cur.appointment.patientid] = "care_abandonment"
                /\ RunPositionOfLast >= 3 )

\* C20: for every calendar date _get_seasonality_modifier returns +0.15 from
\* Dec 20 to Jan 5, +0.08 from Jul 1 to Aug 15, +0.05 from Aug 16 to Aug 31,
\* +0.03 from Apr 1 to Apr 15 and 0 on every other date; Aug 15, which lies in
\* two windows of the table, gets the +0.08 of the first one.
SeasonalityReturned == pc = "returned" /\ result.function = "_get_seasonality_modifier"

C20_SeasonalityTable ==
    SeasonalityReturned =>
        LET month == call.appointment_date.month
            day   == call.appointment_date.day
        IN  result.value =
                IF (month = 12 /\ day >= 20) \/ (month = 1 /\ day <= 5) THEN 15
                ELSE IF month = 7 \/ (month = 8 /\ day <= 15) THEN 8
                ELSE IF month = 8 /\ day >= 16 THEN 5
                ELSE IF month = 4 /\ day <= 15 THEN 3
                ELSE 0

C20_Witness ==
    /\ SeasonalityReturned
    /\ call.appointment_date = [month |-> 8, day |-> 15]
    /\ result.value = 8

\* lead times on both sides of every band limit of lines 389-400
LeadTimeBands == {-1, 0, 1, 3, 4, 7, 8, 14, 15, 30, 31, 90}

\* the call of the current state with another lead time
WithLeadTime(c, lead) ==
    calculate_no_show_probability(c.patient, c.appointment_date, lead, c.hour_of_day,
                                  c.day_of_week, c.virtual_flag, c.new_patient_flag,
                                  c.payer_group, c.web_scheduled, c.journey_stage)

\* C21: with every other argument fixed, the returned probability does not
\* decrease when lead_time_days grows; the lead-time delta is -0.12 up to 0
\* days, -0.06 up to 3, +0.04 up to 7, +0.10 up to 14, +0.14 up to 30 and
\* +0.16 beyond, and the clamp keeps the order.
C21_MonotoneInLeadTime ==
    Returned =>
        /\ \A lead \in LeadTimeBands :
              /\ lead <= call.lead_time_days =>
                    WithLeadTime(call, lead).num <= result.value.num
              /\ call.lead_time_days <= lead =>
                    result.value.num <= WithLeadTime(call, lead).num
              /\ WithLeadTime(call, lead).den = result.value.den
        /\ \A lead \in LeadTimeBands :
              LeadTimeDelta(lead) =
                  CASE lead <= 0 -> -12
                    [] lead \in 1 .. 3 -> -6
                    [] lead \in 4 .. 7 -> 4
                    [] lead \in 8 .. 14 -> 10
                    [] lead \in 15 .. 30 -> 14
                    [] lead > 30 -> 16

\* a call with a lead time of 7 days has returned a probability strictly
\* between the one of a same-day call and the one of a call 90 days ahead
C21_Witness ==
    /\ Returned
    /\ call.lead_time_days = 7
    /\ WithLeadTime(call, 0).num < result.value.num
    /\ result.value.num < WithLeadTime(call, 90).num

\* C22: the appointments counted in the history the probability of an
\* appointment is computed from (the earlier-created, non-future appointments
\* of the same patient) are all dated on or before that appointment's date,
\* also after a date has wrapped to the start of the window and in a later pass
C22_HistoryNotLater ==
    Created =>
        \A i \in EarlierOf(cur.appointment.patientid) :
            appointments[i].appointmentdate <= cur.appointment.appointmentdate

FeaturesReturned ==
    pc = "returned" /\ result.function = "compute_historical_no_show_features"

\* the rows of the same patient dated strictly before row i
StrictlyBefore(rows, i) ==
    { j \in DOMAIN rows :
        /\ rows[j].patientid = rows[i].patientid
        /\ rows[j].appointmentdate < rows[i].appointmentdate }

\* C23: for every row, historical_no_show_count is the number of No Show
\* appointments of the same patient dated strictly before the row's date and
\* historical_no_show_rate is that count over the number of the patient's
\* appointments dated strictly before it (0 when there are none); the row
\* itself and the appointments of the same or a later date do not contribute
C23_HistoryStrictlyBefore ==
    FeaturesReturned =>
        \A k \in DOMAIN result.value :
            LET row    == result.value[k]
                before == StrictlyBefore(call.appointments, row.appointmentid)
                count  == Cardinality({ j \in before :
                              call.appointments[j].appointmentstatus = "No Show" })
            IN  /\ row.historical_no_show_count = count
                /\ row.historical_no_show_rate.num * Max(1, Cardinality(before))
                      = count * row.historical_no_show_rate.den

\* the position of a table in the order referenced-before-referencing
TableRank(table) ==
    CASE table = "Departments"  -> 1
      [] table = "Providers"    -> 2
      [] table = "Patients"     -> 3
      [] table = "Insurance"    -> 4
      [] table = "Appointments" -> 5
      [] table = "Predictions"  -> 6

\* the rows of a table the database has committed
RECURSIVE CommittedRows(_, _)
CommittedRows(batches, table) ==
    IF batches = <<>> THEN 0
    ELSE (IF Head(batches).table = table THEN Head(batches).rows ELSE 0)
         + CommittedRows(Tail(batches), table)

\* the tables an insert has been sent to: committed or in the open transaction
SentTo == { b.table : b \in Range(loc.committed) \cup Range(loc.pending) }

\* C24: seed_database inserts in the order Departments, Providers, Patients,
\* Insurance, Appointments, each table completely before the first row of a
\* later one; with truncate, every delete runs before the first insert, in
\* the order Predictions, Appointments, Insurance, Patients, Providers,
\* Departments, whether or not a delete fails.
C24_SeedOrder ==
    call.function = "seed_database" =>
        /\ \A a, b \in DOMAIN loc.committed :
              a < b => TableRank(loc.committed[a].table) <= TableRank(loc.committed[b].table)
        /\ \A parquet_name \in Range(insert_order) :
              LET table == PARQUET_TO_TABLE(parquet_name)
              IN  (\E later \in SentTo : TableRank(later) > TableRank(table))
                      /\ call.dataframes[parquet_name] # None
                  => CommittedRows(loc.committed, table) = call.dataframes[parquet_name]
        /\ \A a, b \in DOMAIN loc.deleted :
              a < b => TableRank(loc.deleted[a]) > TableRank(loc.deleted[b])
        /\ (pc \in {"insert_dataframe", "returned", "raised"} \/ SentTo # {}) =>
              loc.deleted = IF call.truncate
                            THEN <<"Predictions", "Appointments", "Insurance",
                                   "Patients", "Providers", "Departments">>
                            ELSE <<>>

\* after the six deletes of a truncate, a batch of Appointments has been
\* committed, all rows of Patients being committed
C24_Witness ==
    /\ call.function = "seed_database"
    /\ call.truncate
    /\ Len(loc.deleted) = 6
    /\ call.dataframes["patients"] = MaxTableRows
    /\ CommittedRows(loc.committed, "Patients") = MaxTableRows
    /\ CommittedRows(loc.committed, "Appointments") > 0

\* the offsets of the batches of a table, as committed
RECURSIVE CommittedOffsets(_, _)
CommittedOffsets(batches, table) ==
    IF batches = <<>> THEN <<>>
    ELSE (IF Head(batches).table = table THEN <<Head(batches).offset>> ELSE <<>>)
         \o CommittedOffsets(Tail(batches), table)

\* C25: insert_dataframe neither skips nor repeats a batch: the batches of a
\* table are committed once each, at offsets 0, batch_size, 2 * batch_size, ...;
\* when it returns, the count equals the number of rows and all of them are
\* committed; a batch is attempted at most 3 times, an attempt after the first
\* one follows a connection error and a successful reconnect; every other
\* failure is raised and nothing more is sent.
C25_NoSkipNoDuplicate ==
    call.function = "seed_database" =>
        /\ \A parquet_name \in Range(insert_order) :
              LET offsets == CommittedOffsets(loc.committed, PARQUET_TO_TABLE(parquet_name))
              IN  \A k \in DOMAIN offsets : offsets[k] = (k - 1) * BatchSize
        /\ \A r \in Range(loc.results) :
              \E parquet_name \in Range(insert_order) :
                  /\ r.table = PARQUET_TO_TABLE(parquet_name)
                  /\ r.count = call.dataframes[parquet_name]
                  /\ CommittedRows(loc.committed, r.table) = r.count
        /\ pc = "insert_dataframe" =>
              /\ loc.inserted = Min(loc.i, loc.total)
              /\ CommittedRows(loc.committed,
                               PARQUET_TO_TABLE(insert_order[loc.table_index])) = loc.inserted
              /\ loc.attempt + 1 <= 3
              /\ loc.attempt > 0 =>
                    /\ cur.outcome \in {"executemany_connection_error", "commit_connection_error"}
                    /\ cur.reconnected
                    /\ call.server # ""
        /\ (cur.step = "batch" /\ cur.outcome # "ok" /\ ~cur.reconnected) =>
              /\ pc = "raised"
              /\ result.raised = cur.outcome
        /\ pc = "raised" => ~ENABLED NextSeed

\* the second batch of a table is at its third attempt, after two connection
\* errors and two reconnects
C25_Witness ==
    /\ call.function = "seed_database"
    /\ pc = "insert_dataframe"
    /\ loc.attempt = 2
    /\ loc.i = BatchSize
    /\ cur.reconnected

\* wait_for_deployment has returned Succeeded, in this state or before
WaitReturned ==
    /\ result.function = "wait_for_deployment"
    /\ "value" \in DOMAIN result

WaitRaised(error) ==
    /\ pc = "raised"
    /\ result = [function |-> "wait_for_deployment", raised |-> error]

\* C26: wait_for_deployment ends after at most (max_wait_minutes * 60) //
\* poll_interval polls: it returns only after a poll that observed Succeeded,
\* raises RuntimeError at the first poll observing Failed or Canceled, counts a
\* poll answered "not found" and polls again, re-raises another polling error
\* at once, and raises TimeoutError when the polls are used up.
C26_WaitTerminates ==
    /\ [](/\ loc.polls * call.poll_interval <= call.max_wait_minutes * 60
          /\ WaitReturned => cur.step = "poll" /\ cur.observed = "Succeeded"
          /\ (cur.step = "poll" /\ cur.observed = "Succeeded") =>
                pc \in {"returned", "route_traffic"}
          /\ (cur.step = "poll" /\ cur.observed \in {"Failed", "Canceled"}) =>
                WaitRaised("RuntimeError")
          /\ (cur.step = "poll" /\ cur.observed = "error") => WaitRaised("error")
          /\ (cur.step = "poll" /\ cur.observed = "not found") =>
                pc = "wait_for_deployment" /\ loc.polls >= 1
          /\ cur.step = "timeout" =>
                /\ WaitRaised("TimeoutError")
                /\ (loc.polls + 1) * call.poll_interval > call.max_wait_minutes * 60
                /\ cur.observed \notin {"Succeeded", "Failed", "Canceled", "error"})
    /\ [][pc = "wait_for_deployment" /\ cur'.step = "poll" => loc'.polls = loc.polls + 1]_vars
    /\ (pc = "wait_for_deployment" ~> pc \in {"returned", "route_traffic", "raised"})

\* a direct call with a budget of two polls has returned at its second poll,
\* after a first poll that counted
C26_Witness ==
    /\ call.function = "wait_for_deployment"
    /\ max_iterations(call) = 2
    /\ loc.polls = 2
    /\ pc = "returned"
    /\ cur.observed = "Succeeded"

\* C29: deploy_model gives the deployment all the traffic only after a get
\* observed it Succeeded; in every other state of an existing deployment it
\* first waits for it or recreates it, and when that does not end in
\* Succeeded it raises with the traffic unchanged.
C29_TrafficAfterSucceeded ==
    call.function = "deploy_model" =>
        /\ loc.traffic = 100 => cur.observed = "Succeeded"
        /\ pc = "route_traffic" => cur.observed = "Succeeded"
        /\ pc = "raised" => loc.traffic = None

\* C27: when generate_appointments has finished, the statistics tracked
\* incrementally across the passes (patient_stats no_shows and total) are, for
\* every patient, the values the backfill computed from the returned list: the
\* patient's historical_no_show_count and rate are those the simulation would
\* have used for the patient's next appointment
C27_TrackedEqualsBackfill ==
    pc = "done" =>
        \A i \in DOMAIN patients :
            LET stats == loc.patient_stats[patients[i].patientid]
            IN  /\ patients[i].historical_no_show_count = stats.no_shows
                /\ patients[i].historical_no_show_rate =
                      [num |-> stats.no_shows, den |-> Max(1, stats.total)]
                /\ stats.total = Cardinality(PastOf(patients[i].patientid))

\* a finished run of two passes in which a patient has a counted no-show and
\* an appointment in the future, which is not counted
C27_Witness ==
    /\ pc = "done"
    /\ loc.pass_number >= 2
    /\ \E i \in DOMAIN patients :
          /\ loc.patient_stats[patients[i].patientid].no_shows >= 1
          /\ loc.patient_stats[patients[i].patientid].total
                < Cardinality({ j \in DOMAIN appointments :
                                  appointments[j].patientid = patients[i].patientid })

\* C28: over the whole run a patient has at most one appointment flagged
\* NEW PATIENT, and it is the first one created for the patient; every later
\* one, of the same pass or of a later pass, is flagged EST PATIENT
C28_NewPatientOnce ==
    \A i \in DOMAIN appointments :
        appointments[i].new_patient_flag = "NEW PATIENT" =>
            \A j \in 1 .. i - 1 : appointments[j].patientid # appointments[i].patientid

\* C30: a parent_appointment_id that is set is the id of an appointment that
\* exists, has a smaller id, belongs to the same patient and is the one created
\* just before in the same visit of the patient (same pass); so a chain of
\* parents stays within one patient and, the ids decreasing, has no cycle
C30_ParentWellFounded ==
    /\ \A i \in DOMAIN appointments :
          appointments[i].parentappointmentid # None =>
              \E j \in PrecedingOf(i) :
                  /\ appointments[j].appointmentid = appointments[i].parentappointmentid
                  /\ appointments[j].appointmentid < appointments[i].appointmentid
                  /\ \A k \in PrecedingOf(i) : k <= j
                  /\ \A k \in DOMAIN appointments :
                        appointments[k].appointmentid = appointments[j].appointmentid => k = j
    /\ (Created /\ cur.appointment.parentappointmentid # None) =>
          /\ cur.appt_num >= 1
          /\ cur.appointment.parentappointmentid = cur.appointment.appointmentid - 1

\* the third appointment of one visit: a chain of three
C30_Witness ==
    /\ Created
    /\ cur.appt_num = 2
    /\ Len(appointments) = 3
    /\ appointments[1].parentappointmentid = None
    /\ appointments[2].parentappointmentid = 1
    /\ appointments[3].parentappointmentid = 2

===========================================================================
